---- MODULE Spec2Model ----
(***************************************************************************)
(* Model of the sleepWave chart: the Event hub (canvas_event.ts), the      *)
(* throttle and the SleepWave chart (sleepWave.ts) and the SleepWaveBlock  *)
(* segment (sleep_block.ts).                                               *)
(*                                                                         *)
(* Numbers that the code computes with "/" are exact rationals <<n, d>>    *)
(* with d > 0 in lowest terms; IEEE rounding is not modelled.              *)
(***************************************************************************)
EXTENDS Integers, Sequences, FiniteSets, TLC

VARIABLES
    \* ---- a stand-alone Event object (canvas_event.ts) --------------------
    hub,          \* Event._listener: type -> [has, hs]
    invoked,      \* handler calls made by the most recent emit, in order
    hubOp,        \* the most recent hub operation and its arguments
    \* ---- a stand-alone throttle(func, 50) closure (sleepWave.ts) --------
    thr,          \* the closure: timeoutId, lastExecTime and its host timer
    thrNow,       \* Date.now()
    thrHist,      \* what happened to each call: lead, suppress, trail
    \* ---- a SleepWave chart in its page ---------------------------------
    wave,         \* the SleepWave instance: its fields
    tooltip,      \* tooltipData, the target of this.tooltip
    cursor,       \* document.body.style.cursor
    surface,      \* what is painted on the canvas
    canvasListeners, \* the canvas's listeners: type -> throttle closures
    tasks,        \* queued setTimeout callbacks of handleMouseMove
    now,          \* Date.now()
    lastCall,     \* the most recent operation: its option, whether it repeats
                  \* the setOption before it, the handleEvent runs it made
    dispatched,   \* per type: time of the last handleEvent run, smallest gap
    pointerCount, \* pointer events delivered so far
    configured,   \* the borderRadius the caller most recently supplied
    hitTest,      \* the most recent direct isEventInRegion call and its result
    lastDispatch, \* the event of the most recent handleEvent run, whether it
                  \* hit a block, the exceptions that reached the host
    measured,     \* what the most recent handleMouseMove callback read
    moved         \* blockInfo of the block hit by the most recent mousemove
                  \* that hit one

hubVars == <<hub, invoked, hubOp>>

thrVars == <<thr, thrNow, thrHist>>

noteVars == <<configured, hitTest, lastDispatch, measured, moved>>

chartVars == <<wave, tooltip, cursor, surface, canvasListeners, tasks, now,
               lastCall, dispatched, pointerCount, configured, hitTest,
               lastDispatch, measured, moved>>

vars == <<hub, invoked, hubOp, thr, thrNow, thrHist, wave, tooltip, cursor,
          surface, canvasListeners, tasks, now, lastCall, dispatched,
          pointerCount, configured, hitTest, lastDispatch, measured, moved>>

(***************************************************************************)
(* Event (canvas_event.ts)                                                 *)
(***************************************************************************)

\* bound: longest handler list a hub is driven to
MaxHandlers == 3

EventNames == {"click", "mousemove"}

Handlers == {"h1", "h2"}

\* a handler that raises an exception when called
Throwers == {"boom"}

\* no handler argument (remove(type) / remove(type, undefined))
NoHandler == "undefined"

\* payloads of emit: null, an object without a type field, real events
NullEvent == [nil |-> TRUE, type |-> "undefined"]

Payloads ==
    {NullEvent} \cup [nil : {FALSE}, type : {"undefined", "click", "mousemove"}]

\* this._listener[type] is undefined
NoList == [has |-> FALSE, hs |-> <<>>]

\* private _listener: EventListeners = {}
EmptyListener == [t \in EventNames |-> NoList]

\* Event.on: create the list when missing, then push
On(listener, type, handler) ==
    LET cur == IF ~listener[type].has THEN [has |-> TRUE, hs |-> <<>>]
                                      ELSE listener[type]
    IN  [listener EXCEPT ![type] = [cur EXCEPT !.hs = Append(cur.hs, handler)]]

\* listeners.splice(i, 1), i counted from 0
Splice1(listeners, i) ==
    SubSeq(listeners, 1, i) \o SubSeq(listeners, i + 2, Len(listeners))

\* the for loop of Event.remove from i on (len is the length read at entry)
RECURSIVE RemoveLoop(_, _, _, _)
RemoveLoop(listeners, i, len, handler) ==
    IF i < len
    THEN IF listeners[i + 1] = handler
         THEN Splice1(listeners, i)
         ELSE RemoveLoop(listeners, i + 1, len, handler)
    ELSE listeners

\* handlers that call back into the hub they are registered on, for the
\* type being emitted: once removes itself, adder registers h1
Reentrant == {"once", "adder"}

\* the array emit iterates over, after handler has run: remove(type, once)
\* splices it in place and on(type, "h1") pushes onto it
AfterCall(typeListeners, handler) ==
    IF handler = "once"
    THEN RemoveLoop(typeListeners, 0, Len(typeListeners), handler)
    ELSE IF handler = "adder" THEN Append(typeListeners, "h1")
    ELSE typeListeners

\* an emit loop that catches what a handler raises and goes on
RECURSIVE EmitLoopCatch(_, _, _)
EmitLoopCatch(typeListeners, index, event) ==
    IF index < Len(typeListeners)
    THEN <<[handler |-> typeListeners[index + 1], event |-> event]>>
         \o EmitLoopCatch(AfterCall(typeListeners, typeListeners[index + 1]),
                          index + 1, event)
    ELSE <<>>

\* the for loop of Event.emit from index on: the handlers called, in order;
\* index < typeListeners.length is read on the live array at every turn, and
\* nothing catches what handler(event) raises, so the loop ends there
RECURSIVE EmitLoop(_, _, _)
EmitLoop(typeListeners, index, event) ==
    IF index < Len(typeListeners)
    THEN <<[handler |-> typeListeners[index + 1], event |-> event]>>
         \o (IF typeListeners[index + 1] \in Throwers THEN <<>>
             ELSE EmitLoop(AfterCall(typeListeners, typeListeners[index + 1]),
                           index + 1, event))
    ELSE <<>>

\* the array the for loop of Event.emit leaves behind
RECURSIVE EmitLoopEnd(_, _)
EmitLoopEnd(typeListeners, index) ==
    IF index < Len(typeListeners)
    THEN IF typeListeners[index + 1] \in Throwers THEN typeListeners
         ELSE EmitLoopEnd(AfterCall(typeListeners, typeListeners[index + 1]),
                          index + 1)
    ELSE typeListeners

\* Event.emit: this._listener after the handlers have run
AfterEmit(listener, type, event) ==
    IF event.nil \/ event.type = "undefined" THEN listener
    ELSE IF ~listener[type].has THEN listener
    ELSE [listener EXCEPT ![type].hs = EmitLoopEnd(listener[type].hs, 0)]

\* an emit without the payload check of its first lines
EmitUnchecked(listener, type, event) ==
    IF ~listener[type].has THEN <<>>
    ELSE EmitLoop(listener[type].hs, 0, event)

\* Event.emit: the calls it makes
Emit(listener, type, event) ==
    IF event.nil \/ event.type = "undefined" THEN <<>>
    ELSE IF ~listener[type].has THEN <<>>
    ELSE EmitLoop(listener[type].hs, 0, event)

\* a remove that splices every match instead of stopping at the first
RemoveEvery(listener, type, handler) ==
    IF handler = NoHandler
    THEN [listener EXCEPT ![type] = [has |-> TRUE, hs |-> <<>>]]
    ELSE IF listener[type].has
    THEN [listener EXCEPT ![type].hs =
             SelectSeq(listener[type].hs, LAMBDA h : h # handler)]
    ELSE listener

\* Event.remove
Remove(listener, type, handler) ==
    IF handler = NoHandler
    THEN [listener EXCEPT ![type] = [has |-> TRUE, hs |-> <<>>]]
    ELSE IF listener[type].has
    THEN [listener EXCEPT ![type].hs =
             RemoveLoop(listener[type].hs, 0, Len(listener[type].hs), handler)]
    ELSE listener

(***************************************************************************)
(* throttle (sleepWave.ts)                                                 *)
(***************************************************************************)

\* throttle(this.handleEvent, 50)
ThrottleDelay == 50

\* bound: Date.now() when the page starts (any value above the delay)
TimeOrigin == 1000

NoArgs == [id |-> 0, at |-> 0]

\* no host timer armed for the closure's timeoutId
NoTimer == [armed |-> FALSE, due |-> 0, args |-> NoArgs]

\* let timeoutId = null; let lastExecTime = 0;
NewThrottle(delay) ==
    [delay |-> delay, timeoutId |-> "null", lastExecTime |-> 0,
     timer |-> NoTimer]

\* window.setTimeout clamps a negative delay to 0
TimeoutDelay(d) == IF d < 0 THEN 0 ELSE d

\* a throttle whose trailing timer keeps the first suppressed call's arguments
ThrottleCallKeepFirst(th, args, currentTime) ==
    IF currentTime - th.lastExecTime > th.delay
    THEN [apply |-> TRUE, th |-> [th EXCEPT !.lastExecTime = currentTime]]
    ELSE [apply |-> FALSE,
          th |-> [th EXCEPT
              !.timeoutId = "id",
              !.timer = [armed |-> TRUE,
                         due |-> currentTime + TimeoutDelay(
                             th.delay - (currentTime - th.lastExecTime)),
                         args |-> IF th.timer.armed THEN th.timer.args
                                  ELSE args]]]

\* a throttle with neither leading call nor coalescing: every call is applied
ThrottleCallNone(th, args, currentTime) ==
    [apply |-> TRUE, th |-> [th EXCEPT !.lastExecTime = currentTime]]

\* one call of the function throttle returns, at Date.now() = currentTime:
\* apply says whether func is applied now; the else branch clears the old
\* timer (if timeoutId) and arms a new one holding args
ThrottleCall(th, args, currentTime) ==
    IF currentTime - th.lastExecTime > th.delay
    THEN [apply |-> TRUE, th |-> [th EXCEPT !.lastExecTime = currentTime]]
    ELSE [apply |-> FALSE,
          th |-> [th EXCEPT
              !.timeoutId = "id",
              !.timer = [armed |-> TRUE,
                         due |-> currentTime + TimeoutDelay(
                             th.delay - (currentTime - th.lastExecTime)),
                         args |-> args]]]

\* the setTimeout callback has run at time t: func applied, lastExecTime set
ThrottleTimeout(th, t) ==
    [th EXCEPT !.lastExecTime = t, !.timer = NoTimer]

(***************************************************************************)
(* Numbers: the JavaScript numbers of the layout, as exact rationals       *)
(***************************************************************************)

RECURSIVE GCD(_, _)
GCD(a, b) == IF b = 0 THEN a ELSE GCD(b, a % b)

Abs(n) == IF n < 0 THEN -n ELSE n

\* n / d in lowest terms with a positive denominator (d # 0)
Rat(n, d) ==
    LET g == GCD(Abs(n), Abs(d))
        sg == IF d < 0 THEN -1 ELSE 1
    IN  <<(sg * n) \div g, (sg * d) \div g>>

RInt(n) == <<n, 1>>

RAdd(a, b) == Rat(a[1] * b[2] + b[1] * a[2], a[2] * b[2])

RSub(a, b) == Rat(a[1] * b[2] - b[1] * a[2], a[2] * b[2])

RMul(a, b) == Rat(a[1] * b[1], a[2] * b[2])

\* a / b, b # 0
RDiv(a, b) == Rat(a[1] * b[2], a[2] * b[1])

RLess(a, b) == a[1] * b[2] < b[1] * a[2]

\* Math.min(a, b)
RMin(a, b) == IF RLess(b, a) THEN b ELSE a

(***************************************************************************)
(* SleepWave (sleepWave.ts): fields, init, setOption, draw                 *)
(***************************************************************************)

\* this.canvas === null
NullCanvas == [exists |-> FALSE, width |-> 0, height |-> 0, left |-> 0, top |-> 0]

\* the canvases init can create: dom.clientWidth x dom.clientHeight, and the
\* left/top of canvas.getBoundingClientRect()
Canvases ==
    { [exists |-> TRUE, width |-> 800, height |-> 300, left |-> 0, top |-> 0],
      [exists |-> TRUE, width |-> 210, height |-> 180, left |-> 10, top |-> 5] }

\* the field initialisers of class SleepWave
NewSleepWave ==
    [canvas |-> NullCanvas,
     ctx |-> "null",
     children |-> <<>>,
     sleepType |-> <<"deep", "light", "rem", "awake">>,
     sleepColor |-> <<"#FFB9E4", "#D3B4FF", "#9345FF", "#5701CD">>,
     sleepData |-> <<>>,
     axisColor |-> "#EAEAEA",
     axisYwidth |-> 50,
     axisXheight |-> 20,
     Xmax |-> 800,
     Xmin |-> 0,
     Xdis |-> RInt(1),
     Ydis |-> RInt(1),
     borderRadius |-> RInt(12),
     lineWidth |-> 2]

\* tooltipData of initTooltip; mounted is false while this.tooltip is null
NewTooltip ==
    [mounted |-> FALSE,
     visible |-> FALSE,
     pos |-> [x |-> 0, y |-> 0],
     blockInfo |-> [color |-> "", title |-> "", value |-> 0]]

\* nothing painted on the canvas
BlankSurface == [axes |-> FALSE, labels |-> <<>>, blocks |-> <<>>,
                 connectors |-> <<>>]

\* Object.assign(this, option): the fields option has replace this's
Assign(self, option) ==
    [f \in DOMAIN self |->
        IF f \in DOMAIN option THEN option[f] ELSE self[f]]

\* an updateProperties that keeps the configured radius uncapped
updatePropertiesNoCap(self) ==
    IF ~self.canvas.exists THEN self
    ELSE
    LET xdis == RDiv(RInt(self.canvas.width - self.axisYwidth),
                     RInt(self.Xmax - self.Xmin))
        ydis == RDiv(RInt(self.canvas.height - self.axisXheight), RInt(4))
    IN  [self EXCEPT !.Xdis = xdis, !.Ydis = ydis]

\* an updateProperties that divides after taking the minimum:
\* Math.min(this.Ydis, this.borderRadius) / 4
updatePropertiesDivideLate(self) ==
    IF ~self.canvas.exists THEN self
    ELSE
    LET xdis == RDiv(RInt(self.canvas.width - self.axisYwidth),
                     RInt(self.Xmax - self.Xmin))
        ydis == RDiv(RInt(self.canvas.height - self.axisXheight), RInt(4))
    IN  [self EXCEPT
            !.Xdis = xdis,
            !.Ydis = ydis,
            !.borderRadius = RDiv(RMin(ydis, self.borderRadius), RInt(4))]

\* SleepWave.updateProperties
updateProperties(self) ==
    IF ~self.canvas.exists THEN self
    ELSE
    LET xdis == RDiv(RInt(self.canvas.width - self.axisYwidth),
                     RInt(self.Xmax - self.Xmin))
        ydis == RDiv(RInt(self.canvas.height - self.axisXheight), RInt(4))
    IN  [self EXCEPT
            !.Xdis = xdis,
            !.Ydis = ydis,
            !.borderRadius = RMin(RDiv(ydis, RInt(4)), self.borderRadius)]

\* the canvasListeners the SleepWaveBlock constructor registers on its own hub
BlockListener ==
    On(On(EmptyListener, "click", "handleClick"), "mousemove", "handleMouseMove")

\* names[index] of a JavaScript array (index from 0)
At(names, index) ==
    IF index + 1 \in DOMAIN names THEN names[index + 1] ELSE "undefined"

\* the accumulator of the reduce in draw: null, or [endX, type, nowRadius]
NullPre == [nil |-> TRUE, endX |-> RInt(0), type |-> 0, radius |-> RInt(0)]

\* a block builder that starts every block at the Y axis
BlockForUnchained(self, pre, item) ==
    LET startX == RInt(self.axisYwidth)
        endX == RAdd(startX, RMul(RInt(item[1]), self.Xdis))
        startY == RAdd(RMul(RInt(item[2]), self.Ydis), self.borderRadius)
        endY == RSub(RAdd(startY, self.Ydis),
                     RMul(RInt(2), self.borderRadius))
        hasStraight == RLess(RMul(RInt(2), self.borderRadius),
                             RSub(endX, startX))
        nowRadius == IF hasStraight THEN self.borderRadius
                     ELSE RDiv(RSub(endX, startX), RInt(2))
    IN  [startX |-> startX, startY |-> startY, endX |-> endX, endY |-> endY,
         hasStraight |-> hasStraight, nowRadius |-> nowRadius,
         color |-> At(self.sleepColor, item[2]),
         title |-> At(self.sleepType, item[2]),
         value |-> item[1],
         borderRadius |-> self.borderRadius,
         lineWidth |-> self.lineWidth,
         width |-> self.canvas.width,
         point |-> [x |-> 0, y |-> 0],
         listener |-> BlockListener]

\* a block builder that never shrinks the radius of a narrow block
BlockForRigid(self, pre, item) ==
    LET startX == IF pre.nil THEN RInt(self.axisYwidth) ELSE pre.endX
        endX == RAdd(startX, RMul(RInt(item[1]), self.Xdis))
        startY == RAdd(RMul(RInt(item[2]), self.Ydis), self.borderRadius)
        endY == RSub(RAdd(startY, self.Ydis),
                     RMul(RInt(2), self.borderRadius))
        hasStraight == RLess(RMul(RInt(2), self.borderRadius),
                             RSub(endX, startX))
    IN  [startX |-> startX, startY |-> startY, endX |-> endX, endY |-> endY,
         hasStraight |-> hasStraight, nowRadius |-> self.borderRadius,
         color |-> At(self.sleepColor, item[2]),
         title |-> At(self.sleepType, item[2]),
         value |-> item[1],
         borderRadius |-> self.borderRadius,
         lineWidth |-> self.lineWidth,
         width |-> self.canvas.width,
         point |-> [x |-> 0, y |-> 0],
         listener |-> BlockListener]

\* the SleepWaveBlock the reduce callback builds for item after pre
BlockFor(self, pre, item) ==
    LET startX == IF pre.nil THEN RInt(self.axisYwidth) ELSE pre.endX
        endX == RAdd(startX, RMul(RInt(item[1]), self.Xdis))
        startY == RAdd(RMul(RInt(item[2]), self.Ydis), self.borderRadius)
        endY == RSub(RAdd(startY, self.Ydis),
                     RMul(RInt(2), self.borderRadius))
        hasStraight == RLess(RMul(RInt(2), self.borderRadius),
                             RSub(endX, startX))
        nowRadius == IF hasStraight THEN self.borderRadius
                     ELSE RDiv(RSub(endX, startX), RInt(2))
    IN  [startX |-> startX, startY |-> startY, endX |-> endX, endY |-> endY,
         hasStraight |-> hasStraight, nowRadius |-> nowRadius,
         color |-> At(self.sleepColor, item[2]),
         title |-> At(self.sleepType, item[2]),
         value |-> item[1],
         borderRadius |-> self.borderRadius,
         lineWidth |-> self.lineWidth,
         width |-> self.canvas.width,
         point |-> [x |-> 0, y |-> 0],
         listener |-> BlockListener]

\* the connector the reduce callback paints between pre and block
ConnectorFor(self, pre, item, block) ==
    LET dir == pre.type > item[2]
        lineStartY ==
            IF dir
            THEN RAdd(RMul(RInt(pre.type), self.Ydis), self.borderRadius)
            ELSE RSub(RMul(RInt(pre.type + 1), self.Ydis), self.borderRadius)
        lineEndY == IF dir THEN block.endY ELSE block.startY
    IN  [lineX |-> block.startX, lineStartY |-> lineStartY,
         lineEndY |-> lineEndY, dir |-> dir,
         from |-> At(self.sleepColor, pre.type),
         to |-> At(self.sleepColor, item[2]),
         preRadius |-> pre.radius, nowRadius |-> block.nowRadius,
         at |-> Len(self.children) + 1]

\* a reduce that paints a connector before every block but the first
RECURSIVE DrawReduceJoinAll(_, _, _, _)
DrawReduceJoinAll(self, connectors, pre, i) ==
    IF i > Len(self.sleepData)
    THEN [self |-> self, connectors |-> connectors]
    ELSE
    LET item == self.sleepData[i]
        block == BlockFor(self, pre, item)
    IN  DrawReduceJoinAll(
            [self EXCEPT !.children = Append(self.children, block)],
            IF ~pre.nil
            THEN Append(connectors, ConnectorFor(self, pre, item, block))
            ELSE connectors,
            [nil |-> FALSE, endX |-> block.endX, type |-> item[2],
             radius |-> block.nowRadius],
            i + 1)

\* this.sleepData.reduce(...) from position i on: self.children and the
\* connectors painted so far are carried along with the accumulator pre
RECURSIVE DrawReduce(_, _, _, _)
DrawReduce(self, connectors, pre, i) ==
    IF i > Len(self.sleepData)
    THEN [self |-> self, connectors |-> connectors]
    ELSE
    LET item == self.sleepData[i]
        block == BlockFor(self, pre, item)
        joined == ~pre.nil /\ pre.type # item[2]
    IN  DrawReduce(
            [self EXCEPT !.children = Append(self.children, block)],
            IF joined
            THEN Append(connectors, ConnectorFor(self, pre, item, block))
            ELSE connectors,
            [nil |-> FALSE, endX |-> block.endX, type |-> item[2],
             radius |-> block.nowRadius],
            i + 1)

\* what one block paints
Painted(b) ==
    [startX |-> b.startX, startY |-> b.startY, endX |-> b.endX,
     endY |-> b.endY, color |-> b.color]

\* a draw that appends to the children of the previous render
drawKeepChildren(self, surf) ==
    LET r == DrawReduce(self, <<>>, NullPre, 1)
    IN  [self |-> r.self,
         surface |-> [axes |-> TRUE, labels |-> self.sleepType,
                      blocks |-> [i \in DOMAIN r.self.children |->
                                     Painted(r.self.children[i])],
                      connectors |-> r.connectors]]

\* SleepWave.draw onto the surface surf: the chart and what is painted
draw(self, surf) ==
    IF self.ctx = "null" \/ ~self.canvas.exists
    THEN [self |-> self, surface |-> surf]
    ELSE
    LET r == DrawReduce([self EXCEPT !.children = <<>>], <<>>, NullPre, 1)
    IN  [self |-> r.self,
         surface |-> [axes |-> TRUE, labels |-> self.sleepType,
                      blocks |-> [i \in DOMAIN r.self.children |->
                                     Painted(r.self.children[i])],
                      connectors |-> r.connectors]]

(***************************************************************************)
(* SleepWaveBlock (sleep_block.ts): hit test and pointer handlers, and     *)
(* SleepWave.handleEvent.  w is the state they touch: the chart's          *)
(* children, the tooltip, document.body.style.cursor and the host's queue  *)
(* of setTimeout(fn) tasks.                                                *)
(***************************************************************************)

\* SleepWaveBlock.getEventPosition
getEventPosition(canvas, clientX, clientY) ==
    [x |-> clientX - canvas.left, y |-> clientY - canvas.top]

\* a containment test that takes the edges of the block as inside
InRegionClosed(b, p) ==
    LET width == RSub(b.endX, b.startX)
        height == RSub(b.endY, b.startY)
    IN  /\ ~RLess(RInt(p.x), b.startX)
        /\ ~RLess(RAdd(b.startX, width), RInt(p.x))
        /\ ~RLess(RInt(p.y), b.startY)
        /\ ~RLess(RAdd(b.startY, height), RInt(p.y))

\* the containment test of isEventInRegion for this.point = p
InRegion(b, p) ==
    LET width == RSub(b.endX, b.startX)
        height == RSub(b.endY, b.startY)
    IN  /\ RLess(b.startX, RInt(p.x))
        /\ RLess(RInt(p.x), RAdd(b.startX, width))
        /\ RLess(b.startY, RInt(p.y))
        /\ RLess(RInt(p.y), RAdd(b.startY, height))

\* SleepWaveBlock.isEventInRegion on children[i]: stores this.point; on a
\* miss resets the cursor and hides the tooltip
isEventInRegion(w, canvas, i, clientX, clientY) ==
    LET p == getEventPosition(canvas, clientX, clientY)
        w1 == [w EXCEPT !.children[i].point = p]
    IN  IF InRegion(w1.children[i], p)
        THEN [hit |-> TRUE, w |-> w1]
        ELSE [hit |-> FALSE,
              w |-> [w1 EXCEPT !.cursor = "default",
                               !.tooltip.visible = FALSE]]

\* this.children.filter(shape => shape.isEventInRegion(...)) from i on
RECURSIVE FilterLoop(_, _, _, _, _)
FilterLoop(w, canvas, event, i, hits) ==
    IF i > Len(w.children) THEN [w |-> w, hits |-> hits]
    ELSE LET r == isEventInRegion(w, canvas, i, event.clientX, event.clientY)
         IN  FilterLoop(r.w, canvas, event, i + 1,
                        IF r.hit THEN Append(hits, i) ELSE hits)

\* SleepWaveBlock.commonHandler
commonHandler(w) ==
    [w EXCEPT !.cursor = "pointer", !.tooltip.visible = TRUE]

\* a queued setTimeout callback of handleMouseMove: it holds the block it
\* was created by, children[idx] while that block is in the collection and
\* the block itself (blk) once a render has replaced the collection
LiveTask(idx, event) ==
    [live |-> TRUE, idx |-> idx, blk |-> <<>>, event |-> event]

\* a handleMouseMove that writes blockInfo within the dispatch
RunHandlerSync(w0, i, call) ==
    LET w == [w0 EXCEPT !.calls = Append(@, [handler |-> call.handler,
                                             idx |-> i])]
    IN  IF call.handler = "handleClick" THEN commonHandler(w)
        ELSE IF call.handler = "handleMouseMove"
        THEN [commonHandler(w) EXCEPT
                 !.tasks = Append(w.tasks, LiveTask(i, call.event)),
                 !.tooltip.blockInfo = [color |-> w.children[i].color,
                                        title |-> w.children[i].title,
                                        value |-> w.children[i].value]]
        ELSE IF call.handler \in Throwers THEN [w EXCEPT !.threw = TRUE]
        ELSE w

\* a handleMouseMove whose callback runs before the callbacks queued earlier
RunHandlerLifo(w0, i, call) ==
    LET w == [w0 EXCEPT !.calls = Append(@, [handler |-> call.handler,
                                             idx |-> i])]
    IN  IF call.handler = "handleClick" THEN commonHandler(w)
        ELSE IF call.handler = "handleMouseMove"
        THEN [commonHandler(w) EXCEPT !.tasks = <<LiveTask(i, call.event)>> \o w.tasks]
        ELSE IF call.handler \in Throwers THEN [w EXCEPT !.threw = TRUE]
        ELSE w

\* one handler call made by emit on children[i]: the two handlers of the
\* block, a handler that raises, or a handler that touches nothing here
RunHandler(w0, i, call) ==
    LET w == [w0 EXCEPT !.calls = Append(@, [handler |-> call.handler,
                                             idx |-> i])]
    IN  IF call.handler = "handleClick" THEN commonHandler(w)
        ELSE IF call.handler = "handleMouseMove"
        THEN [commonHandler(w) EXCEPT !.tasks = Append(w.tasks, LiveTask(i, call.event))]
        ELSE IF call.handler \in Throwers THEN [w EXCEPT !.threw = TRUE]
        ELSE w

\* the handler(event) calls of one emit, from position k on
RECURSIVE RunHandlers(_, _, _, _)
RunHandlers(w, i, calls, k) ==
    IF k > Len(calls) THEN w
    ELSE RunHandlers(RunHandler(w, i, calls[k]), i, calls, k + 1)

\* .forEach(shape => shape.emit(event.type, event)) over the hits from k
\* on; an exception out of emit ends the forEach
RECURSIVE EmitHits(_, _, _, _)
EmitHits(w, hits, event, k) ==
    IF k > Len(hits) \/ w.threw THEN w
    ELSE LET i == hits[k]
         IN  EmitHits(
                 RunHandlers(w, i,
                     Emit(w.children[i].listener, event.type, event), 1),
                 hits, event, k + 1)

\* SleepWave.handleEvent
handleEvent(w, canvas, event) ==
    LET f == FilterLoop(w, canvas, event, 1, <<>>)
    IN  EmitHits(f.w, f.hits, event, 1)

\* the block a queued callback reads
TaskBlock(w, task) == IF task.live THEN w.children[task.idx] ELSE task.blk[1]

\* a callback that clamps without the 12 px margin
MoveCallbackNoMargin(w, task, boxWidth) ==
    LET b == TaskBlock(w, task)
    IN  [w EXCEPT
            !.tooltip.pos =
                [x |-> IF b.point.x + boxWidth >= b.width
                       THEN b.width - boxWidth
                       ELSE b.point.x,
                 y |-> 8],
            !.tooltip.blockInfo =
                [color |-> b.color, title |-> b.title, value |-> b.value]]

\* the setTimeout callback of handleMouseMove, boxWidth being
\* this.canvas.tooltip.$el.clientWidth
MoveCallback(w, task, boxWidth) ==
    LET b == TaskBlock(w, task)
    IN  [w EXCEPT
            !.tooltip.pos =
                [x |-> IF b.point.x + boxWidth + 12 >= b.width
                       THEN b.width - boxWidth - 12
                       ELSE b.point.x,
                 y |-> 8],
            !.tooltip.blockInfo =
                [color |-> b.color, title |-> b.title, value |-> b.value]]

\* the queued callbacks keep their blocks when draw replaces this.children
Detach(queue, children) ==
    [k \in DOMAIN queue |->
        IF queue[k].live
        THEN [live |-> FALSE, idx |-> 0, blk |-> <<children[queue[k].idx]>>,
              event |-> queue[k].event]
        ELSE queue[k]]

\* the canvas calls its canvasListeners for one event, in the order they were
\* added, from position i on; runs counts the handleEvent runs.  An
\* exception leaves func.apply before lastExecTime = currentTime and reaches
\* the host, which reports it and calls the next listener
RECURSIVE CallListeners(_, _, _, _, _, _, _)
CallListeners(ths, w, canvas, event, t, i, runs) ==
    IF i > Len(ths) THEN [ths |-> ths, w |-> w, runs |-> runs]
    ELSE LET r == ThrottleCall(ths[i], event, t)
             w1 == IF r.apply THEN handleEvent(w, canvas, event) ELSE w
         IN  CallListeners(
                 [ths EXCEPT ![i] = IF w1.threw THEN @ ELSE r.th],
                 [w1 EXCEPT !.threw = FALSE,
                            !.uncaught = IF w1.threw THEN @ + 1 ELSE @],
                 canvas, event, t, i + 1,
                 IF r.apply THEN runs + 1 ELSE runs)

\* an initEvent that adds a listener only where the canvas has none
initEventOnce(self, ls) ==
    IF ~self.canvas.exists THEN ls
    ELSE
    [n \in EventNames |->
        IF ls[n] = <<>> THEN <<NewThrottle(ThrottleDelay)>> ELSE ls[n]]

\* SleepWave.initEvent: one more throttled listener per event name
initEvent(self, ls) ==
    IF ~self.canvas.exists THEN ls
    ELSE
    [n \in EventNames |-> Append(ls[n], NewThrottle(ThrottleDelay))]

(***************************************************************************)
(* The chart in its page: state, operations                                *)
(***************************************************************************)

\* the run of handleEvent for event name n at time t, in the record of the
\* last run per name and the smallest gap between two runs in a row
NoteRun(d, n, t) ==
    [d EXCEPT ![n] =
        [last |-> t,
         gap |-> IF d[n].last = -1 THEN d[n].gap
                 ELSE IF d[n].gap = -1 \/ t - d[n].last < d[n].gap
                      THEN t - d[n].last
                      ELSE d[n].gap]]

RECURSIVE NoteRuns(_, _, _, _)
NoteRuns(d, n, t, k) == IF k = 0 THEN d ELSE NoteRuns(NoteRun(d, n, t), n, t, k - 1)

\* no pointer event
NoEvent == [nil |-> TRUE, type |-> "undefined", clientX |-> 0, clientY |-> 0]

\* the children whose region holds the event's point
Hits(children, canvas, event) ==
    {i \in DOMAIN children :
        InRegion(children[i],
                 getEventPosition(canvas, event.clientX, event.clientY))}

\* {color, title, value} of a block
InfoOf(b) == [color |-> b.color, title |-> b.title, value |-> b.value]

\* the record of a handleEvent run for event over children
NoteDispatch(children, canvas, event, w) ==
    [event |-> event, hit |-> Hits(children, canvas, event) # {},
     uncaught |-> w.uncaught, calls |-> w.calls]

\* the record of the block a mousemove run has hit, if it hit one
NoteMove(m, children, canvas, event) ==
    LET hs == Hits(children, canvas, event)
    IN  IF event.type = "mousemove" /\ hs # {}
        THEN [any |-> TRUE, prev |-> m.info,
              info |-> InfoOf(children[CHOOSE i \in hs : \A j \in hs : j <= i])]
        ELSE m

\* threw: an exception is on its way out; uncaught: the exceptions that
\* have reached the host; calls: the handler calls made
World == [children |-> wave.children, tooltip |-> tooltip, cursor |-> cursor,
          tasks |-> tasks, threw |-> FALSE, uncaught |-> 0, calls |-> <<>>]

\* the state after construction: new SleepWave() with nothing mounted, a
\* new Event(), and a closure throttle(func, 50) not yet called
Init ==
    /\ wave = NewSleepWave
    /\ tooltip = NewTooltip
    /\ cursor = "default"
    /\ surface = BlankSurface
    /\ canvasListeners = [n \in EventNames |-> <<>>]
    /\ tasks = <<>>
    /\ now = TimeOrigin
    /\ lastCall = [op |-> "new", option |-> <<>>, runs |-> 0, repeat |-> FALSE]
    /\ dispatched = [n \in EventNames |-> [last |-> -1, gap |-> -1]]
    /\ pointerCount = 0
    /\ configured = RInt(12)
    /\ hitTest = [idx |-> 0, clientX |-> 0, clientY |-> 0, result |-> FALSE]
    /\ lastDispatch = [event |-> NoEvent, hit |-> FALSE, uncaught |-> 0,
                       calls |-> <<>>]
    /\ measured = [boxWidth |-> 0, pointX |-> 0, width |-> 0, eventX |-> 0,
                   shown |-> NewTooltip.blockInfo, visible |-> FALSE,
                   info |-> NewTooltip.blockInfo]
    /\ moved = [any |-> FALSE, prev |-> NewTooltip.blockInfo,
                info |-> NewTooltip.blockInfo]
    /\ hub = EmptyListener
    /\ invoked = <<>>
    /\ hubOp = [op |-> "new", type |-> "click", handler |-> NoHandler,
                event |-> NullEvent]
    /\ thr = NewThrottle(ThrottleDelay)
    /\ thrNow = TimeOrigin
    /\ thrHist = <<>>

\* setOption has rendered on an initialised chart
Rendered == wave.canvas.exists /\ surface.axes

\* SleepWave.init(dom), called once; canvas is the canvas it creates
init(canvas) ==
    /\ ~wave.canvas.exists
    /\ wave' = [wave EXCEPT !.canvas = canvas, !.ctx = "2d"]
    /\ tooltip' = [NewTooltip EXCEPT !.mounted = TRUE]
    /\ lastCall' = [op |-> "init", option |-> <<>>, runs |-> 0,
                 repeat |-> FALSE]
    /\ UNCHANGED <<cursor, surface, canvasListeners, tasks, now, dispatched, pointerCount,
                 noteVars, hubVars, thrVars>>

\* a setOption that merges the option before its null check
setOptionMergeFirst(option) ==
    /\ IF wave.ctx = "null" \/ ~wave.canvas.exists
       THEN /\ wave' = Assign(wave, option)
            /\ UNCHANGED <<surface, tasks, canvasListeners, configured>>
       ELSE LET d == draw(updateProperties(Assign(wave, option)), BlankSurface)
            IN  /\ wave' = d.self
                /\ surface' = d.surface
                /\ tasks' = Detach(tasks, wave.children)
                /\ canvasListeners' = initEvent(wave, canvasListeners)
                /\ configured' = IF "borderRadius" \in DOMAIN option
                                 THEN option.borderRadius ELSE configured
    /\ lastCall' = [op |-> "setOption", option |-> option, runs |-> 0,
                 repeat |-> lastCall.op = "setOption"
                            /\ lastCall.option = option]
    /\ UNCHANGED <<tooltip, cursor, now, dispatched, pointerCount,
                 hitTest, lastDispatch, measured, moved, hubVars, thrVars>>

\* SleepWave.setOption(option)
setOption(option) ==
    /\ IF wave.ctx = "null" \/ ~wave.canvas.exists
       THEN UNCHANGED <<wave, surface, tasks, canvasListeners, configured>>
       ELSE LET d == draw(updateProperties(Assign(wave, option)), BlankSurface)
            IN  /\ wave' = d.self
                /\ surface' = d.surface
                /\ tasks' = Detach(tasks, wave.children)
                /\ canvasListeners' = initEvent(wave, canvasListeners)
                /\ configured' = IF "borderRadius" \in DOMAIN option
                                 THEN option.borderRadius ELSE configured
    /\ lastCall' = [op |-> "setOption", option |-> option, runs |-> 0,
                 repeat |-> lastCall.op = "setOption"
                            /\ lastCall.option = option]
    /\ UNCHANGED <<tooltip, cursor, now, dispatched, pointerCount,
                 hitTest, lastDispatch, measured, moved, hubVars, thrVars>>

\* a pointer event of the given type reaches the canvas
pointer(type, clientX, clientY) ==
    /\ wave.canvas.exists
    /\ LET event == [nil |-> FALSE, type |-> type, clientX |-> clientX,
                     clientY |-> clientY]
           r == CallListeners(canvasListeners[type], World, wave.canvas, event,
                              now, 1, 0)
       IN  /\ canvasListeners' = [canvasListeners EXCEPT ![type] = r.ths]
           /\ wave' = [wave EXCEPT !.children = r.w.children]
           /\ tooltip' = r.w.tooltip
           /\ cursor' = r.w.cursor
           /\ tasks' = r.w.tasks
           /\ lastCall' = [op |-> "pointer", option |-> <<>>, runs |-> r.runs,
                         repeat |-> FALSE]
           /\ dispatched' = NoteRuns(dispatched, type, now, r.runs)
           /\ lastDispatch' = IF r.runs = 0 THEN lastDispatch
                              ELSE NoteDispatch(wave.children, wave.canvas, event, r.w)
           /\ moved' = IF r.runs = 0 THEN moved
                       ELSE NoteMove(moved, wave.children, wave.canvas, event)
    /\ pointerCount' = pointerCount + 1
    /\ UNCHANGED <<surface, now, configured, hitTest, measured,
                 hubVars, thrVars>>

\* the host runs the trailing timer of listener i of the given type
timerFire(type, i) ==
    /\ i \in DOMAIN canvasListeners[type]
    /\ canvasListeners[type][i].timer.armed
    /\ now >= canvasListeners[type][i].timer.due
    /\ LET w == handleEvent(World, wave.canvas, canvasListeners[type][i].timer.args)
       IN  /\ wave' = [wave EXCEPT !.children = w.children]
           /\ tooltip' = w.tooltip
           /\ cursor' = w.cursor
           /\ tasks' = w.tasks
           /\ canvasListeners' = [canvasListeners EXCEPT ![type][i] =
                  IF w.threw THEN [@ EXCEPT !.timer = NoTimer]
                  ELSE ThrottleTimeout(@, now)]
           /\ lastDispatch' = NoteDispatch(wave.children, wave.canvas,
                  canvasListeners[type][i].timer.args,
                  [w EXCEPT !.uncaught = IF w.threw THEN 1 ELSE 0])
    /\ lastCall' = [op |-> "timer", option |-> <<>>, runs |-> 1,
                 repeat |-> FALSE]
    /\ dispatched' = NoteRun(dispatched, type, now)
    /\ moved' = NoteMove(moved, wave.children, wave.canvas,
                         canvasListeners[type][i].timer.args)
    /\ UNCHANGED <<surface, now, pointerCount, configured, hitTest, measured,
                 hubVars, thrVars>>

\* children[i].isEventInRegion(clientX, clientY) called on its own
callIsEventInRegion(i, clientX, clientY) ==
    /\ wave.canvas.exists
    /\ i \in DOMAIN wave.children
    /\ LET r == isEventInRegion(World, wave.canvas, i, clientX, clientY)
       IN  /\ wave' = [wave EXCEPT !.children = r.w.children]
           /\ tooltip' = r.w.tooltip
           /\ cursor' = r.w.cursor
           /\ hitTest' = [idx |-> i, clientX |-> clientX, clientY |-> clientY,
                          result |-> r.hit]
    /\ lastCall' = [op |-> "hitTest", option |-> <<>>, runs |-> 0,
                 repeat |-> FALSE]
    /\ UNCHANGED <<surface, canvasListeners, tasks, now, dispatched, pointerCount,
                 configured, lastDispatch, measured, moved, hubVars, thrVars>>

\* children[i].on(type, handler): a handler of the page on a block's hub
blockOn(i, type, handler) ==
    /\ i \in DOMAIN wave.children
    /\ wave' = [wave EXCEPT
                   !.children[i].listener = On(@, type, handler)]
    /\ lastCall' = [op |-> "on", option |-> <<>>, runs |-> 0,
                 repeat |-> FALSE]
    /\ UNCHANGED <<tooltip, cursor, surface, canvasListeners, tasks, now,
                 dispatched, pointerCount, noteVars, hubVars, thrVars>>

\* the panel widths the host can measure for a visible tooltip
PanelWidths == {90}

\* the host runs the oldest queued callback of handleMouseMove; a hidden
\* panel (display: none) measures 0 wide
runTask(boxWidth) ==
    /\ tasks # <<>>
    /\ boxWidth = 0 <=> ~tooltip.visible
    /\ LET w == MoveCallback([World EXCEPT !.tasks = Tail(tasks)],
                             Head(tasks), boxWidth)
           b == TaskBlock(World, Head(tasks))
       IN  /\ tooltip' = w.tooltip
           /\ tasks' = w.tasks
           /\ measured' = [boxWidth |-> boxWidth, pointX |-> b.point.x,
                           eventX |-> getEventPosition(wave.canvas,
                               Head(tasks).event.clientX,
                               Head(tasks).event.clientY).x,
                           width |-> b.width, shown |-> tooltip.blockInfo,
                           visible |-> tooltip.visible, info |-> InfoOf(b)]
    /\ lastCall' = [op |-> "task", option |-> <<>>, runs |-> 0,
                 repeat |-> FALSE]
    /\ UNCHANGED <<wave, cursor, surface, canvasListeners, now, dispatched, pointerCount,
                 configured, hitTest, lastDispatch, moved, hubVars, thrVars>>

\* time passes to the given offset from TimeOrigin
advance(offset) ==
    /\ TimeOrigin + offset > now
    /\ now' = TimeOrigin + offset
    /\ lastCall' = [op |-> "advance", option |-> <<>>, runs |-> 0,
                 repeat |-> FALSE]
    /\ UNCHANGED <<wave, tooltip, cursor, surface, canvasListeners, tasks, dispatched, pointerCount,
                 noteVars, hubVars, thrVars>>

(***************************************************************************)
(* The stand-alone Event object and throttle closure                       *)
(***************************************************************************)

HubOn(type, handler) ==
    /\ Len(hub[type].hs) < MaxHandlers
    /\ hub' = On(hub, type, handler)
    /\ hubOp' = [op |-> "on", type |-> type, handler |-> handler,
                 event |-> NullEvent]
    /\ UNCHANGED <<invoked, thrVars, chartVars>>

HubEmit(type, event) ==
    /\ invoked' = Emit(hub, type, event)
    /\ hub' = AfterEmit(hub, type, event)
    /\ hubOp' = [op |-> "emit", type |-> type, handler |-> NoHandler,
                 event |-> event]
    /\ UNCHANGED <<thrVars, chartVars>>

HubRemove(type, handler) ==
    /\ hub' = Remove(hub, type, handler)
    /\ hubOp' = [op |-> "remove", type |-> type, handler |-> handler,
                 event |-> NullEvent]
    /\ UNCHANGED <<invoked, thrVars, chartVars>>

HubNext ==
    \/ \E t \in EventNames, h \in Handlers : HubOn(t, h)
    \/ \E t \in EventNames, e \in Payloads : HubEmit(t, e)
    \/ \E t \in EventNames, h \in Handlers \cup {NoHandler} : HubRemove(t, h)

SpecHub == Init /\ [][HubNext]_vars

\* the handlers registered on a hub whose handlers call back into it
ReHandlers == {"h1"} \cup Reentrant

\* the event name of that hub
ReTypes == {"click"}

RePayloads == {[nil |-> FALSE, type |-> "click"]}

ReNext ==
    \/ \E t \in ReTypes, h \in ReHandlers : HubOn(t, h)
    \/ \E t \in ReTypes, e \in RePayloads :
          Len(AfterEmit(hub, t, e)[t].hs) <= MaxHandlers /\ HubEmit(t, e)
    \/ \E t \in ReTypes, h \in ReHandlers \cup {NoHandler} : HubRemove(t, h)

SpecReentrant == Init /\ [][ReNext]_vars

\* bound: calls made to the stand-alone throttle
MaxThrCalls == 4

\* offsets from TimeOrigin (ms) at which calls arrive
CallOffsets == {0, 10, 20, 60, 70}

\* offsets the clock visits: the call offsets and the trailing deadlines
ClockOffsets == CallOffsets \cup {50, 100, 110, 120}

Calls(hist) == SelectSeq(hist, LAMBDA e : e.kind \in {"lead", "suppress"})

\* the throttled function is called (a pointer event reaches the listener)
ThrCall ==
    /\ Len(Calls(thrHist)) < MaxThrCalls
    /\ thrNow - TimeOrigin \in CallOffsets
    /\ LET args == [id |-> Len(Calls(thrHist)) + 1, at |-> thrNow]
           r == ThrottleCall(thr, args, thrNow)
       IN  /\ thr' = r.th
           /\ thrHist' = Append(thrHist,
                  [kind |-> IF r.apply THEN "lead" ELSE "suppress",
                   args |-> args, time |-> thrNow])
    /\ UNCHANGED <<thrNow, hubVars, chartVars>>

\* the host runs the armed timer, at its deadline or later
ThrTimerFire ==
    /\ thr.timer.armed
    /\ thrNow >= thr.timer.due
    /\ thrHist' = Append(thrHist,
           [kind |-> "trail", args |-> thr.timer.args, time |-> thrNow])
    /\ thr' = ThrottleTimeout(thr, thrNow)
    /\ UNCHANGED <<thrNow, hubVars, chartVars>>

\* time passes
ThrAdvance ==
    /\ \E o \in ClockOffsets :
          /\ TimeOrigin + o > thrNow
          /\ thrNow' = TimeOrigin + o
    /\ UNCHANGED <<thr, thrHist, hubVars, chartVars>>

ThrNext == ThrCall \/ ThrTimerFire \/ ThrAdvance

\* the clock advances and the host runs every armed timer
SpecThrottle ==
    Init /\ [][ThrNext]_vars /\ WF_vars(ThrTimerFire) /\ WF_vars(ThrAdvance)

(***************************************************************************)
(* The chart: rendering and pointer events                                 *)
(***************************************************************************)

\* bound: renders (setOption calls on an initialised chart) in one run
MaxSetOptions == 4

\* the options setOption is called with
Options ==
    { <<>>,
      [sleepData |-> << <<120, 0>>, <<80, 1>> >>],
      [sleepData |-> << <<6, 2>>, <<0, 2>>, <<300, 0>> >>],
      [sleepData |-> <<>>],
      [borderRadius |-> RInt(100)],
      [borderRadius |-> RInt(4), lineWidth |-> 3],
      [Xmax |-> 400, Xmin |-> 100],
      [axisYwidth |-> 10, axisXheight |-> 60],
      [axisXheight |-> 20],
      [Xmax |-> 850, Xmin |-> 100],
      [sleepData |-> << <<50, 1>> >>],
      [sleepData |-> << <<100, 1>>, <<200, 1>> >>],
      [sleepType |-> <<"deep", "light", "awake">>,
       sleepColor |-> <<"#FFB9E4", "#D3B4FF", "#5701CD">>] }

Next ==
    \/ \E c \in Canvases : init(c)
    \/ \E o \in Options :
          Len(canvasListeners["click"]) < MaxSetOptions /\ setOption(o)

Spec == Init /\ [][Next]_vars

(***************************************************************************)
(* The chart under pointer events                                          *)
(***************************************************************************)

\* bound: renders in one run with pointer events
MaxRenders == 2

\* bound: pointer events in one run
MaxPointerEvents == 2

\* the options setOption is called with between pointer events
PointerOptions == { [sleepData |-> << <<120, 0>>, <<680, 1>> >>],
                    [sleepData |-> <<>>] }

\* the canvas init creates
PointerCanvases == {c \in Canvases : c.width = 800}

\* where the pointer is (clientX, clientY): over the first block, over the
\* second block near the right edge of the canvas, over no block
PointerPoints ==
    { [x |-> 100, y |-> 30], [x |-> 700, y |-> 100], [x |-> 700, y |-> 200] }

\* offsets from TimeOrigin (ms) the clock visits
ChartOffsets == {60}

PointerNext ==
    \/ \E c \in PointerCanvases : init(c)
    \/ \E o \in PointerOptions :
          Len(canvasListeners["click"]) < MaxRenders /\ setOption(o)
    \/ \E n \in EventNames, p \in PointerPoints :
          pointerCount < MaxPointerEvents /\ pointer(n, p.x, p.y)
    \/ \E n \in EventNames, i \in 1..MaxRenders : timerFire(n, i)
    \/ \E bw \in PanelWidths \cup {0} : runTask(bw)
    \/ \E o \in ChartOffsets : advance(o)

SpecPointer == Init /\ [][PointerNext]_vars

(***************************************************************************)
(* The hit test of a block                                                 *)
(***************************************************************************)

\* bound: renders in one run with direct hit tests
MaxHitRenders == 1

\* the options setOption is called with before the hit tests
HitOptions == { [sleepData |-> << <<120, 0>>, <<80, 1>> >>],
                [sleepData |-> << <<50, 1>> >>] }

\* clientX of the hit tests: the left edge of the first block on the
\* larger canvas (50) and on the smaller (60), its right edge on the
\* smaller (84), and points beside them
HitXs == {50, 51, 60, 61, 84}

\* clientY of the hit tests: the top edge (15) and the bottom edge (35) of
\* the first block on the smaller canvas, and a point between them
HitYs == {15, 16, 35}

HitNext ==
    \/ \E c \in Canvases : init(c)
    \/ \E o \in HitOptions :
          Len(canvasListeners["click"]) < MaxHitRenders /\ setOption(o)
    \/ \E i \in 1..2, x \in HitXs, y \in HitYs : callIsEventInRegion(i, x, y)

SpecHit == Init /\ [][HitNext]_vars

(***************************************************************************)
(* The chart with handlers of the page on its blocks                       *)
(***************************************************************************)


\* bound: handlers the page registers on one block
MaxUserHandlers == 2

\* bound: pointer events in one run with handlers of the page
MaxThrowEvents == 2

ThrowOptions == { [sleepData |-> << <<120, 0>>, <<680, 1>> >>] }

\* the blocks the page registers handlers on
ThrowBlocks == {1}

\* the handlers the page registers: one that returns, one that raises
ThrowHandlers == {"h1"} \cup Throwers

\* the handlers the page has registered on children[i]
UserHandlers(i) ==
    Len(wave.children[i].listener["click"].hs)
        + Len(wave.children[i].listener["mousemove"].hs) - 2

\* where the pointer is: over the first block, over the second block
ThrowPoints == { [x |-> 100, y |-> 30], [x |-> 700, y |-> 100] }

\* one render, then handlers of the page and pointer events; the callbacks
\* of handleMouseMove stay queued, they take no part in a dispatch
ThrowNext ==
    \/ \E c \in PointerCanvases : init(c)
    \/ \E o \in ThrowOptions : ~Rendered /\ setOption(o)
    \/ \E i \in ThrowBlocks, n \in EventNames, h \in ThrowHandlers :
          /\ i \in DOMAIN wave.children
          /\ UserHandlers(i) < MaxUserHandlers
          /\ blockOn(i, n, h)
    \/ \E n \in EventNames, p \in ThrowPoints :
          pointerCount < MaxThrowEvents /\ pointer(n, p.x, p.y)
    \/ \E n \in EventNames, i \in {1} : timerFire(n, i)
    \/ \E o \in ChartOffsets : advance(o)

SpecThrow == Init /\ [][ThrowNext]_vars

(***************************************************************************)
(* Claims about throttle                                                   *)
(***************************************************************************)

Dispatches(hist) == SelectSeq(hist, LAMBDA e : e.kind \in {"lead", "trail"})

\* the calls made so far are exactly those of the script, at its offsets
CallsAre(offsets) ==
    LET c == Calls(thrHist)
    IN  /\ Len(c) = Len(offsets)
        /\ \A i \in DOMAIN c : c[i].time = TimeOrigin + offsets[i]

\* C3 as stated: calls at t = 0, 10, 20 and 60 ms through the 50 ms throttle
\* give exactly two applications of the wrapped handler
C3_TwoDispatches ==
    (CallsAre(<<0, 10, 20, 60>>) /\ ~thr.timer.armed)
        => Len(Dispatches(thrHist)) = 2

\* C3 amended: calls at t = 0, 10, 20 and 60 ms give exactly three
\* applications once no timer is pending: the t = 0 call at once, the
\* t = 20 call from the trailing timer at t >= 50, and the t = 60 call;
\* only the t = 10 call is dropped
C3_ThreeDispatches ==
    (CallsAre(<<0, 10, 20, 60>>) /\ ~thr.timer.armed) =>
        LET d == Dispatches(thrHist)
        IN  /\ Len(d) = 3
            /\ d[1] = [kind |-> "lead", args |-> [id |-> 1, at |-> TimeOrigin],
                       time |-> TimeOrigin]
            /\ {d[i].args.id : i \in DOMAIN d} = {1, 3, 4}
            /\ \E i \in DOMAIN d :
                  /\ d[i].kind = "trail"
                  /\ d[i].args.id = 3
                  /\ d[i].time >= TimeOrigin + 50

C3_Witness ==
    /\ CallsAre(<<0, 10, 20, 60>>)
    /\ ~thr.timer.armed
    /\ Len(Dispatches(thrHist)) = 3

\* no entry of kind k strictly between positions i and j of the history
NoneBetween(hist, i, j, kinds) ==
    \A k \in (i + 1)..(j - 1) : hist[k].kind \notin kinds

\* the time of the last application before position i
LastExecBefore(hist, i) ==
    LET ds == {m \in 1..(i - 1) : hist[m].kind \in {"lead", "trail"}}
    IN  IF ds = {} THEN 0
        ELSE hist[CHOOSE m \in ds : \A n \in ds : n <= m].time

\* every trailing application carries the most recent suppressed call, is the
\* only one for it, and runs no earlier than one window after the
\* application that opened the window
TrailingIsLatest ==
    \A j \in DOMAIN thrHist :
        thrHist[j].kind = "trail" =>
            \E i \in 1..(j - 1) :
                /\ thrHist[i].kind = "suppress"
                /\ thrHist[i].args = thrHist[j].args
                /\ NoneBetween(thrHist, i, j, {"suppress", "trail"})
                /\ thrHist[j].time >=
                       LastExecBefore(thrHist, i) + ThrottleDelay

\* a suppressed call followed by another suppressed call before any trailing
\* application is never applied
SupersededDropped ==
    \A i \in DOMAIN thrHist, k \in DOMAIN thrHist :
        (/\ i < k
         /\ thrHist[i].kind = "suppress"
         /\ thrHist[k].kind = "suppress"
         /\ NoneBetween(thrHist, i, k, {"trail"}))
        => \A j \in DOMAIN thrHist :
               thrHist[j].kind \in {"lead", "trail"}
                   => thrHist[j].args # thrHist[i].args

\* a call was suppressed and no trailing application has followed it yet
TrailingOwed ==
    \E i \in DOMAIN thrHist :
        /\ thrHist[i].kind = "suppress"
        /\ \A j \in (i + 1)..Len(thrHist) : thrHist[j].kind # "trail"

C5_EmitContract ==
    hubOp.op = "emit" =>
        LET regs == hub[hubOp.type].hs
        IN  IF hubOp.event.nil \/ hubOp.event.type = "undefined"
            THEN invoked = <<>>
            ELSE /\ Len(invoked) = Len(regs)
                 /\ \A i \in DOMAIN regs :
                       /\ invoked[i].handler = regs[i]
                       /\ invoked[i].event = hubOp.event

C5_Witness ==
    /\ hubOp.op = "emit"
    /\ ~hubOp.event.nil
    /\ hubOp.event.type # "undefined"
    /\ Len(invoked) = 3
    /\ invoked[1].handler = invoked[3].handler
    /\ invoked[1].handler # invoked[2].handler
    /\ \E t \in EventNames \ {hubOp.type} : Len(hub[t].hs) > 0

\* the positions of handler in a list
Occurrences(list, handler) == {i \in DOMAIN list : list[i] = handler}

\* C6: remove(name, handler) deletes the first occurrence of handler in
\* name's list and nothing else; remove(name) empties name's list; the lists
\* of the other names stay; removing an unregistered handler changes nothing
C6_RemoveFrame ==
    [][hubOp'.op = "remove" =>
        LET t == hubOp'.type
            h == hubOp'.handler
            old == hub[t].hs
            new == hub'[t].hs
            occ == Occurrences(old, h)
        IN  /\ \A u \in EventNames \ {t} : hub'[u] = hub[u]
            /\ h = NoHandler => new = <<>>
            /\ (h # NoHandler /\ occ = {}) => hub'[t] = hub[t]
            /\ (h # NoHandler /\ occ # {}) =>
                  LET first == CHOOSE i \in occ : \A j \in occ : i <= j
                  IN  /\ Len(new) = Len(old) - 1
                      /\ \A k \in DOMAIN new :
                            new[k] = IF k < first THEN old[k] ELSE old[k + 1]
    ]_vars

C6_Witness ==
    /\ hubOp.op = "remove"
    /\ hubOp.handler # NoHandler
    /\ Len(hub[hubOp.type].hs) = 2
    /\ hub[hubOp.type].hs[2] = hubOp.handler
    /\ hub[hubOp.type].hs[1] # hubOp.handler
    /\ \E t \in EventNames \ {hubOp.type} : Len(hub[t].hs) > 0

(***************************************************************************)
(* Claims about the chart                                                  *)
(***************************************************************************)


\* C1 as stated: once setOption has rendered, the canvas has exactly one
\* listener per tracked event name, so one pointer event makes at most one
\* handleEvent run
C1_SingleListener ==
    Rendered =>
        /\ \A n \in EventNames : Len(canvasListeners[n]) = 1
        /\ lastCall.op = "pointer" => lastCall.runs <= 1

\* C2 as stated: two handleEvent runs in a row for the same event name are
\* at least one 50 ms window apart
C2_RateLimited ==
    \A n \in EventNames :
        dispatched[n].gap = -1 \/ dispatched[n].gap >= ThrottleDelay

\* the chart fields and everything a render or a listener would touch
Touched == <<wave, tooltip, cursor, surface, canvasListeners, tasks>>

\* C7: setOption before init changes nothing: no field merged, no segment,
\* no listener, no scale
C7_NoOpBeforeInit ==
    [][(lastCall'.op = "setOption" /\ (wave.ctx = "null" \/ ~wave.canvas.exists))
        => /\ Touched' = Touched
           /\ wave' = NewSleepWave
           /\ \A n \in EventNames : canvasListeners'[n] = <<>>
    ]_vars

C7_Witness ==
    /\ lastCall.op = "setOption"
    /\ "sleepData" \in DOMAIN lastCall.option
    /\ lastCall.option.sleepData # <<>>
    /\ ~wave.canvas.exists
    /\ wave.sleepData = <<>>

RLeq(a, b) == ~RLess(b, a)

RECURSIVE SumWidths(_, _)
SumWidths(ch, i) ==
    IF i > Len(ch) THEN RInt(0)
    ELSE RAdd(RSub(ch[i].endX, ch[i].startX), SumWidths(ch, i + 1))

RECURSIVE SumDurations(_, _)
SumDurations(data, i) ==
    IF i > Len(data) THEN 0 ELSE data[i][1] + SumDurations(data, i + 1)

\* C8: after a render the children are exactly the segments of the current
\* sleepData, in order, chained from axisYwidth, and their widths add up to
\* (sum of durations) * Xdis
C8_SegmentsMatchData ==
    Rendered =>
        LET ch == wave.children
            data == wave.sleepData
        IN  /\ Len(ch) = Len(data)
            /\ \A i \in DOMAIN ch :
                  /\ ch[i].value = data[i][1]
                  /\ ch[i].title = At(wave.sleepType, data[i][2])
                  /\ ch[i].color = At(wave.sleepColor, data[i][2])
                  /\ ch[i].startX =
                        IF i = 1 THEN RInt(wave.axisYwidth) ELSE ch[i - 1].endX
            /\ SumWidths(ch, 1) = RMul(RInt(SumDurations(data, 1)), wave.Xdis)
            /\ data = <<>> => ch = <<>>

C8_Witness ==
    /\ Rendered
    /\ lastCall.op = "setOption"
    /\ Len(canvasListeners["click"]) = 3
    /\ Len(wave.children) = 2
    /\ wave.Xmax = 400

\* C9: a setOption that repeats the option of the setOption just before it
\* leaves the children as that one left them
C9_Idempotent ==
    [][(lastCall'.op = "setOption" /\ lastCall'.repeat /\ wave.canvas.exists)
        => wave'.children = wave.children
    ]_vars

C9_Witness ==
    /\ lastCall.op = "setOption"
    /\ lastCall.repeat
    /\ Rendered
    /\ Len(wave.children) = 3
    /\ wave.borderRadius # RInt(12)

\* C10: after a render the radius is at most Ydis / 4 (Ydis = 40 and a
\* configured 100 give 10) and every segment is at least two radii high
C10_RadiusCapped ==
    Rendered =>
        /\ RLeq(wave.borderRadius, RDiv(wave.Ydis, RInt(4)))
        /\ (/\ lastCall.op = "setOption"
            /\ "borderRadius" \in DOMAIN lastCall.option
            /\ lastCall.option.borderRadius = RInt(100)
            /\ wave.Ydis = RInt(40))
           => wave.borderRadius = RInt(10)
        /\ \A i \in DOMAIN wave.children :
              LET b == wave.children[i]
              IN  /\ b.borderRadius = wave.borderRadius
                  /\ RLeq(RMul(RInt(2), b.borderRadius),
                          RSub(b.endY, b.startY))

C10_Witness ==
    /\ Rendered
    /\ lastCall.op = "setOption"
    /\ lastCall.option = [borderRadius |-> RInt(100)]
    /\ wave.Ydis = RInt(40)
    /\ wave.borderRadius = RInt(10)
    /\ Len(wave.children) = 2

\* C11 as stated: after a render the radius used for layout is the smaller
\* of the radius the caller most recently supplied (12 if never) and Ydis / 4
C11_RadiusFromConfig ==
    Rendered =>
        wave.borderRadius = RMin(configured, RDiv(wave.Ydis, RInt(4)))

\* C12 as stated: after a render Ydis is (canvas.height - axisXheight) / K,
\* K being the number of configured labels, and the K lanes end at the X axis
C12_ScalePerLabel ==
    Rendered =>
        LET K == Len(wave.sleepType)
        IN  /\ wave.Ydis =
                  RDiv(RInt(wave.canvas.height - wave.axisXheight), RInt(K))
            /\ RMul(RInt(K), wave.Ydis) =
                  RInt(wave.canvas.height - wave.axisXheight)

\* C13: a block has a straight run exactly when it is wider than two radii;
\* with one its radius is the layout radius, without one half its width
\* (width 6 under radius 12 gives 3), so never more than half its width
C13_RadiusHalfWidth ==
    Rendered =>
        \A i \in DOMAIN wave.children :
            LET b == wave.children[i]
                width == RSub(b.endX, b.startX)
            IN  /\ b.hasStraight <=>
                      RLess(RMul(RInt(2), wave.borderRadius), width)
                /\ b.hasStraight => b.nowRadius = wave.borderRadius
                /\ ~b.hasStraight => b.nowRadius = RDiv(width, RInt(2))
                /\ (width = RInt(6) /\ wave.borderRadius = RInt(12))
                      => b.nowRadius = RInt(3)
                /\ RLeq(RMul(RInt(2), b.nowRadius), width)

C13_Witness ==
    /\ Rendered
    /\ wave.borderRadius = RInt(12)
    /\ \E i \in DOMAIN wave.children :
          /\ RSub(wave.children[i].endX, wave.children[i].startX) = RInt(6)
          /\ ~wave.children[i].hasStraight
          /\ wave.children[i].nowRadius = RInt(3)
    /\ \E i \in DOMAIN wave.children : wave.children[i].hasStraight

\* the positions of sleepData whose type differs from the one before
Joins(data) == {i \in 2..Len(data) : data[i][2] # data[i - 1][2]}

\* C14: a render paints a connector at position i exactly when i has a
\* predecessor of another type: as many connectors as such pairs, none for
\* an empty sequence, a single interval or equal types
C14_ConnectorPerChange ==
    Rendered =>
        LET cs == surface.connectors
            data == wave.sleepData
        IN  /\ Len(cs) = Cardinality(Joins(data))
            /\ {cs[k].at : k \in DOMAIN cs} = Joins(data)
            /\ Len(data) <= 1 => cs = <<>>
            /\ (\A i \in 2..Len(data) : data[i][2] = data[1][2]) => cs = <<>>

C14_Witness ==
    /\ Rendered
    /\ Len(wave.sleepData) = 3
    /\ wave.sleepData[1][2] = wave.sleepData[2][2]
    /\ Len(surface.connectors) = 1
    /\ surface.connectors[1].at = 3

\* the block and the canvas-local point of the most recent direct hit test
HitBlock == wave.children[hitTest.idx]

HitPoint == [x |-> hitTest.clientX - wave.canvas.left,
             y |-> hitTest.clientY - wave.canvas.top]

\* C15 as stated: isEventInRegion is true exactly for the points whose
\* canvas-local coordinates are in [startX, endX) x [startY, endY)
C15_HalfOpenRegion ==
    lastCall.op = "hitTest" =>
        (hitTest.result <=>
            /\ RLeq(HitBlock.startX, RInt(HitPoint.x))
            /\ RLess(RInt(HitPoint.x), HitBlock.endX)
            /\ RLeq(HitBlock.startY, RInt(HitPoint.y))
            /\ RLess(RInt(HitPoint.y), HitBlock.endY))

\* C15 amended: isEventInRegion is true exactly for the points whose
\* canvas-local coordinates are strictly inside (startX, endX) x
\* (startY, endY); a point on an edge, x = startX as well as x = endX, is
\* outside
C15_OpenRegion ==
    lastCall.op = "hitTest" =>
        /\ hitTest.result <=>
              /\ RLess(HitBlock.startX, RInt(HitPoint.x))
              /\ RLess(RInt(HitPoint.x), HitBlock.endX)
              /\ RLess(HitBlock.startY, RInt(HitPoint.y))
              /\ RLess(RInt(HitPoint.y), HitBlock.endY)
        /\ RInt(HitPoint.x) \in {HitBlock.startX, HitBlock.endX}
              => ~hitTest.result
        /\ HitBlock.point = HitPoint

C15_Witness ==
    /\ lastCall.op = "hitTest"
    /\ wave.canvas.left = 10
    /\ RInt(HitPoint.x) = HitBlock.endX
    /\ RLess(HitBlock.startY, RInt(HitPoint.y))
    /\ RLess(RInt(HitPoint.y), HitBlock.endY)
    /\ ~hitTest.result
    /\ ~tooltip.visible

\* C16: a handleEvent run writes neither tooltip.pos nor tooltip.blockInfo;
\* when it hits a block, tooltip.visible is true after it, a mousemove has
\* queued its callback and a click has queued none; pos and blockInfo are
\* written by a queued callback only
C16_DeferredTooltip ==
    [][/\ lastCall'.op \in {"pointer", "timer"} =>
              /\ tooltip'.pos = tooltip.pos
              /\ tooltip'.blockInfo = tooltip.blockInfo
       /\ (/\ lastCall'.op \in {"pointer", "timer"}
           /\ lastCall'.runs > 0
           /\ lastDispatch'.hit) =>
              /\ tooltip'.visible
              /\ IF lastDispatch'.event.type = "mousemove"
                 THEN Len(tasks') = Len(tasks) + lastCall'.runs
                 ELSE tasks' = tasks
       /\ (tooltip'.pos # tooltip.pos
              \/ tooltip'.blockInfo # tooltip.blockInfo) =>
              lastCall'.op = "task"
    ]_vars

C16_Witness ==
    /\ lastCall.op = "pointer"
    /\ lastCall.runs = 1
    /\ lastDispatch.event.type = "mousemove"
    /\ lastDispatch.hit
    /\ tooltip.visible
    /\ Len(tasks) = 1
    /\ tooltip.blockInfo = NewTooltip.blockInfo
    /\ tooltip.pos = NewTooltip.pos

\* C17 as stated: when a queued callback measures the panel, the tooltip is
\* visible and already shows the content of the callback's block
C17_ContentBeforeMeasure ==
    lastCall.op = "task" =>
        /\ measured.visible
        /\ measured.shown = measured.info

\* C18: a queued callback writes y = 8 and x = point.x, or
\* width - boxWidth - 12 when point.x + boxWidth + 12 >= width, so that
\* x + boxWidth + 12 <= width for the boxWidth it measured
C18_TooltipInsideRight ==
    lastCall.op = "task" =>
        /\ tooltip.pos.y = 8
        /\ tooltip.pos.x =
              IF measured.pointX + measured.boxWidth + 12 >= measured.width
              THEN measured.width - measured.boxWidth - 12
              ELSE measured.pointX
        /\ tooltip.pos.x + measured.boxWidth + 12 <= measured.width

C18_Witness ==
    /\ lastCall.op = "task"
    /\ measured.boxWidth = 90
    /\ measured.pointX = 700
    /\ measured.width = 800
    /\ tooltip.pos = [x |-> 698, y |-> 8]

\* C19: a queued callback leaves the queue only by running, and once no
\* callback is queued, tooltip.blockInfo is that of the block hit by the
\* most recent mousemove run that hit a block
C19_LastMoveWins ==
    /\ []((tasks = <<>> /\ moved.any) => tooltip.blockInfo = moved.info)
    /\ [][Len(tasks') < Len(tasks) =>
              /\ lastCall'.op = "task"
              /\ Len(tasks') = Len(tasks) - 1
         ]_vars

C19_Witness ==
    /\ tasks = <<>>
    /\ lastCall.op = "task"
    /\ moved.any
    /\ moved.prev # NewTooltip.blockInfo
    /\ moved.prev # moved.info
    /\ tooltip.blockInfo = moved.info

\* the handlers one emit on a hub with the list regs calls: all of them, or
\* those up to the first one that raises
CalledOf(regs) ==
    LET ts == {k \in DOMAIN regs : regs[k] \in Throwers}
    IN  IF ts = {} THEN regs
        ELSE SubSeq(regs, 1, CHOOSE k \in ts : \A j \in ts : k <= j)

\* C20: in every handleEvent run, emit on the block that is hit calls the
\* handlers registered for the event's type in order up to the first one
\* that raises and none after it, and the exception of every such run
\* reaches the host: neither emit nor handleEvent nor the throttle catches
C20_ExceptionPropagates ==
    (lastCall.op \in {"pointer", "timer"} /\ lastCall.runs > 0) =>
        LET hs == Hits(wave.children, wave.canvas, lastDispatch.event)
        IN  IF hs = {}
            THEN lastDispatch.calls = <<>> /\ lastDispatch.uncaught = 0
            ELSE
            LET i == CHOOSE j \in hs : TRUE
                regs == wave.children[i].listener[lastDispatch.event.type].hs
                called == CalledOf(regs)
                calls == lastDispatch.calls
            IN  /\ Cardinality(hs) = 1
                /\ Len(calls) = lastCall.runs * Len(called)
                /\ \A k \in DOMAIN calls :
                      calls[k] = [handler |-> called[((k - 1) % Len(called)) + 1],
                                  idx |-> i]
                /\ lastDispatch.uncaught =
                      IF \E k \in DOMAIN regs : regs[k] \in Throwers
                      THEN lastCall.runs ELSE 0

C20_Witness ==
    /\ lastCall.op = "pointer"
    /\ lastCall.runs = 1
    /\ lastDispatch.hit
    /\ lastDispatch.event.type = "click"
    /\ wave.children[1].listener["click"].hs = <<"handleClick", "boom", "h1">>
    /\ lastDispatch.calls = <<[handler |-> "handleClick", idx |-> 1],
                              [handler |-> "boom", idx |-> 1]>>
    /\ lastDispatch.uncaught = 1

\* C21 as stated: after a handleEvent run the tooltip is visible exactly
\* when the event's point is inside a block of the current children
C21_VisibleIffHit ==
    (lastCall.op \in {"pointer", "timer"} /\ lastCall.runs > 0) =>
        (tooltip.visible <=>
            Hits(wave.children, wave.canvas, lastDispatch.event) # {})

\* C24 as stated: the x a queued callback computes the position from is
\* the canvas-local x of the mousemove that queued it
C24_PositionFromOwnEvent ==
    lastCall.op = "task" => measured.pointX = measured.eventX

\* C22 as stated: emit calls each handler that was registered for the name
\* when emit was called exactly once, in order, and no other, also when a
\* handler calls remove or on for that name during the dispatch
C22_SnapshotEmit ==
    [][(hubOp'.op = "emit" /\ ~hubOp'.event.nil
            /\ hubOp'.event.type # "undefined") =>
          LET regs == hub[hubOp'.type].hs
          IN  /\ Len(invoked') = Len(regs)
              /\ \A i \in DOMAIN regs : invoked'[i].handler = regs[i]
      ]_vars

\* client points on and beside the edges of the blocks
ProbeXs == {10, 11, 30, 50, 51, 56, 60, 100, 143, 144, 162, 163, 331}

ProbeYs == {10, 12, 20, 30, 58, 60, 82, 100, 128, 152, 180}

\* the pointer event of handleEvent at client point (x, y)
ProbeEvent(x, y) ==
    [nil |-> FALSE, type |-> "click", clientX |-> x, clientY |-> y]

\* C23: the hit regions of the blocks of one render are pairwise disjoint:
\* of two blocks the earlier ends where the later starts or before it, and
\* the filter of handleEvent keeps at most one block for any pointer event
C23_RegionsDisjoint ==
    Rendered =>
        /\ \A i \in DOMAIN wave.children, j \in DOMAIN wave.children :
              i < j =>
                  /\ RLeq(wave.children[i].startX, wave.children[i].endX)
                  /\ RLeq(wave.children[i].endX, wave.children[j].startX)
        /\ \A x \in ProbeXs, y \in ProbeYs :
              Cardinality(Hits(wave.children, wave.canvas, ProbeEvent(x, y)))
                  <= 1

C23_Witness ==
    /\ Rendered
    /\ Len(wave.children) = 2
    /\ wave.sleepData[1][2] = wave.sleepData[2][2]
    /\ Hits(wave.children, wave.canvas, ProbeEvent(100, 100)) = {1}
    /\ Hits(wave.children, wave.canvas, ProbeEvent(162, 100)) = {2}

====
